---- MODULE Spec2Model ----
(***************************************************************************)
(* Model of SolarSystemApp (src/src/js/main.js): the texture-loading       *)
(* promise chain, the initialisation sequence, the THREE.Clock the app     *)
(* owns, the lil-gui handlers of createGUI and the per-frame animate().    *)
(*                                                                         *)
(* Units.  Wall-clock time is performance.now() in milliseconds; the clock *)
(* keeps seconds, as THREE.Clock does ((newTime - oldTime) / 1000).        *)
(* Slider values are counted in slider steps of 0.1 (earthRotationSpeed 1  *)
(* is 10, inclination 5.1 is 51, intensity 0.8 is 8).  Every angle is kept *)
(* exactly, as an integer count of a fixed fraction of a radian:           *)
(*   earth.rotation.y        in 1/10 rad     (t * speed)                   *)
(*   clouds.rotation.y       in 1/100 rad    (t * speed * 0.9)             *)
(*   sun.rotation.y          in 1/14610 rad  (t * 0.05 * speed / 73.05)    *)
(*   Earth orbit angle       in 1/7305 rad   (t * speed / 365.25)          *)
(*   Moon orbit angle        in 1/2732 rad   (t * speed / 27.32)           *)
(* Positions are fixed-point with three decimals (1/1000 scene unit).      *)
(***************************************************************************)
EXTENDS Integers, Naturals, Sequences, FiniteSets, TLC

\* ---------------------------------------------------------------- bounds
MaxTicks == 1

\* the number of times at which the running application is sampled
MaxSample == 360

\* ------------------------------------------------------ program constants
NumTextures == 7
SpeedMin == 0
SpeedMax == 2000
SpeedDefault == 10
InclMin == 0
InclMax == 100
InclDefault == 51
InclAnimate == 51
AtmoMin == 0
AtmoMax == 15
AtmoInitial == 8
AtmoAnimate == 8

\* values a user can type into a control's number field (slider steps),
\* inside and outside the declared range
SpeedInputs == {-1, 25}
InclInputs == {80, 101}
AtmoInputs == {12}

\* speeds entered while the running application is sampled
FrameSpeedInputs == {-1, 1}

\* seconds since the first frame at which the running application is sampled:
\* at speed 0.1 the Earth orbit angle 2 t / 7305 rad runs from 0 over pi
\* (t = 11477) to 2 pi in 360 steps
TimeInputs == {(i * 11477) \div 180 : i \in 0..MaxSample}

\* ------------------------------------------------------------ arithmetic
RECURSIVE SqrtIter(_, _, _)
SqrtIter(n, lo, hi) ==
  IF lo >= hi THEN lo
  ELSE LET mid == (lo + hi + 1) \div 2
       IN IF mid * mid <= n THEN SqrtIter(n, mid, hi)
                            ELSE SqrtIter(n, lo, mid - 1)

\* floor of the square root, 0 <= n < 2^30
ISqrt(n) == SqrtIter(n, 0, 32767)

\* a / b rounded toward zero, b > 0 (fixed-point division, sign-symmetric)
TDiv(a, b) == IF a >= 0 THEN a \div b ELSE 0 - ((0 - a) \div b)

\* cosine of y milliradians, 0 <= y <= 1571, in thousandths (Taylor series)
CosQ(y) ==
  LET y2 == (y * y) \div 1000
      y4 == (y2 * y2) \div 1000
      y6 == (y4 * y2) \div 1000
      y8 == (y6 * y2) \div 1000
  IN 1000 - (y2 \div 2) + (y4 \div 24) - (y6 \div 720) + (y8 \div 40320)

\* sine of y milliradians, 0 <= y <= 1571, in thousandths (Taylor series)
SinQ(y) ==
  LET y2 == (y * y) \div 1000
      y3 == (y * y2) \div 1000
      y5 == (y3 * y2) \div 1000
      y7 == (y5 * y2) \div 1000
      y9 == (y7 * y2) \div 1000
  IN y - (y3 \div 6) + (y5 \div 120) - (y7 \div 5040) + (y9 \div 362880)

\* Math.cos of x milliradians (x >= 0), in thousandths
CosMilli(x) ==
  LET y == x % 6283
      z == IF y > 3142 THEN 6283 - y ELSE y
  IN IF z > 1571 THEN 0 - CosQ(3142 - z) ELSE CosQ(z)

\* Math.sin of x milliradians (x >= 0), in thousandths
SinMilli(x) ==
  LET y == x % 6283
      z == IF y > 3142 THEN y - 3142 ELSE y
      h == IF z > 1571 THEN SinQ(3142 - z) ELSE SinQ(z)
  IN IF y > 3142 THEN 0 - h ELSE h

Vec(x, y, z) == [x |-> x, y |-> y, z |-> z]
VSub(a, b) == Vec(a.x - b.x, a.y - b.y, a.z - b.z)
VAdd(a, b) == Vec(a.x + b.x, a.y + b.y, a.z + b.z)
\* Vector3.multiplyScalar
VScale(a, k) == Vec(a.x * k, a.y * k, a.z * k)
\* Vector3.length, in thousandths
VLen(a) == ISqrt(a.x * a.x + a.y * a.y + a.z * a.z)
\* Vector3.normalize: divideScalar(length() || 1); result in thousandths
VNormalize(a) ==
  LET l == IF VLen(a) = 0 THEN 1 ELSE VLen(a)
  IN Vec(TDiv(a.x * 1000, l), TDiv(a.y * 1000, l), TDiv(a.z * 1000, l))


\* Quaternion.setFromUnitVectors(vFrom, vTo) followed by normalize(), for unit
\* vectors in thousandths that are not opposite (r = dot + 1 > 0)
QuatFromUnitVectors(f, t) ==
  LET r == 1000 + TDiv(f.x * t.x + f.y * t.y + f.z * t.z, 1000)
      cx == TDiv(f.y * t.z - f.z * t.y, 1000)
      cy == TDiv(f.z * t.x - f.x * t.z, 1000)
      cz == TDiv(f.x * t.y - f.y * t.x, 1000)
      l == ISqrt(cx * cx + cy * cy + cz * cz + r * r)
  IN [x |-> TDiv(cx * 1000, l), y |-> TDiv(cy * 1000, l),
      z |-> TDiv(cz * 1000, l), w |-> TDiv(r * 1000, l)]

\* ------------------------------------------------------------ THREE.Clock
\* this.clock = new THREE.Clock(): autoStart defaults to true
NewClock == [autoStart |-> TRUE, startTime |-> 0, oldTime |-> 0,
             elapsedTime |-> 0, running |-> FALSE]

\* Clock.start(): startTime = oldTime = now(); elapsedTime = 0; running = true
ClockStart(c, t) ==
  [c EXCEPT !.startTime = t, !.oldTime = t, !.elapsedTime = 0, !.running = TRUE]

\* getDelta() without the `if (this.running)` test: time is added while stopped
ClockGetDeltaIgnoresRunning(c, t) ==
  IF c.autoStart /\ ~c.running THEN ClockStart(c, t)
  ELSE [c EXCEPT !.oldTime = t,
                 !.elapsedTime = @ + ((t - c.oldTime) \div 1000)]

\* getDelta() with `elapsedTime = diff` for `elapsedTime += diff`
ClockGetDeltaOverwrites(c, t) ==
  IF c.autoStart /\ ~c.running THEN ClockStart(c, t)
  ELSE IF c.running
       THEN [c EXCEPT !.oldTime = t, !.elapsedTime = (t - c.oldTime) \div 1000]
       ELSE c

\* Clock.getDelta(): the clock after the call
ClockGetDelta(c, t) ==
  IF c.autoStart /\ ~c.running THEN ClockStart(c, t)
  ELSE IF c.running
       THEN [c EXCEPT !.oldTime = t,
                      !.elapsedTime = @ + ((t - c.oldTime) \div 1000)]
       ELSE c

\* Clock.getElapsedTime(): getDelta(), then the value of elapsedTime
ClockGetElapsedTime(c, t) == ClockGetDelta(c, t)

\* stop() that leaves autoStart set: the next getDelta() restarts the clock
ClockStopKeepsAutoStart(c, t) ==
  [ClockGetElapsedTime(c, t) EXCEPT !.running = FALSE]

\* Clock.stop(): getElapsedTime(); running = false; autoStart = false
ClockStop(c, t) ==
  [ClockGetElapsedTime(c, t) EXCEPT !.running = FALSE, !.autoStart = FALSE]

\* ------------------------------------------------- kinematics of animate()
\* this.sun.rotation.y = elapsedTime * 0.05 * (speed / 73.05)
SunRotation(t, speed) == t * speed

\* this.earth.rotation.y = elapsedTime * earthRotationSpeed
EarthRotation(t, speed) == t * speed

\* this.clouds.rotation.y = elapsedTime * (earthRotationSpeed * 0.9)
CloudRotation(t, speed) == t * speed * 9

\* the rate with `earthRotationSpeed || 73.05` for the speed read: a speed of
\* 0 is taken for a missing one (73.05 to the nearest tenth)
EarthOrbitSpeedOrDefault(speed) == (IF speed = 0 THEN 731 ELSE speed) * 2

\* earthOrbitSpeed = earthRotationSpeed / 365.25, in 1/7305 rad per second
\* (animate's Earth block and its Moon block)
EarthOrbitSpeed(speed) == speed * 2

\* const earthOrbitSpeed = 0.2 of the inclination handler, in 1/7305 rad per
\* second
HandlerEarthOrbitSpeed == 1461

\* angle = elapsedTime * earthOrbitSpeed
EarthOrbitAngle(t, speed) == t * EarthOrbitSpeed(speed)

\* the Earth orbit angle in milliradians, as the argument of Math.cos/sin
OrbitMrad(angle) == (angle * 1000) \div 7305

\* the denominator with the sign of the cosine term turned: 1 - e cos(angle)
OrbitDenominatorMinus(angle) == 1000 - TDiv(250 * CosMilli(OrbitMrad(angle)), 1000)

\* the denominator 1 + e cos(angle) of the orbit radius, in thousandths
OrbitDenominator(angle) == 1000 + TDiv(250 * CosMilli(OrbitMrad(angle)), 1000)

\* the radius with the eccentricity 0.0167 the constant had before it was
\* raised to 0.25: a copy of the formula that was not updated
OrbitRadiusOldEccentricity(angle) ==
  (19994 * 1000) \div (1000 + TDiv(17 * CosMilli(OrbitMrad(angle)), 1000))

\* r = a (1 - e^2) / (1 + e cos(angle)) with a = 20, e = 0.25, in thousandths
OrbitRadius(angle) == (18750 * 1000) \div OrbitDenominator(angle)

\* earthGroup.position.set(-r cos(angle), 0, r sin(angle))
EarthPosition(angle) ==
  LET r == OrbitRadius(angle)
  IN Vec(0 - TDiv(r * CosMilli(OrbitMrad(angle)), 1000), 0,
         TDiv(r * SinMilli(OrbitMrad(angle)), 1000))

\* earthGroup.rotation.set(0,0,0); rotateZ(23.5 deg); rotateY(angle)
EarthGroupRotation(angle) == [tilt |-> 235, y |-> angle]

\* sunToEarth = subVectors(earthGroup.position, (0,0,0)).normalize()
SunToEarth(pos) == VNormalize(VSub(pos, Vec(0, 0, 0)))

\* sunToEarth.multiplyScalar(10) scales sunToEarth in place and returns it
SunToEarthScaled(pos) == VScale(SunToEarth(pos), 10)

\* the primary light with sunToEarth left unnormalised
PrimaryLightUnnormalised(pos) == VSub(pos, VScale(VSub(pos, Vec(0, 0, 0)), 10))

\* sunDirectionalLight.position = earthGroup.position - sunToEarth * 10
PrimaryLight(pos) == VSub(pos, SunToEarthScaled(pos))

\* offsetVector = (sin(pi/12), cos(pi/12), 0).normalize(), in thousandths
OffsetVector == VNormalize(Vec(SinMilli(262), CosMilli(262), 0))

\* offsetPosition = position - (sunToEarth.clone() * 8 + offsetVector * 2),
\* read after the primary light has scaled sunToEarth in place
SecondaryLight(pos) ==
  VSub(pos, VAdd(VScale(SunToEarthScaled(pos), 8), VScale(OffsetVector, 2)))

\* moonOrbitSpeed = earthOrbitSpeed * (365.25 / 27.32); angle = t * it, in
\* 1/2732 rad
MoonOrbitAngle(t, speed) == t * EarthOrbitSpeed(speed) * 5

\* moonGroup.rotation.set(0,0,0); rotateY(angle); rotateX(5.1 deg)
MoonGroupRotation(t, speed) == [y |-> MoonOrbitAngle(t, speed), x |-> InclAnimate]

\* this.moon.position.set(5, 0, 0), never written afterwards
MoonPosition == Vec(5000, 0, 0)

\* the quaternion built from moon.position itself, without the subtraction
\* from the origin: the +Z axis turned away from Earth
MoonQuaternionAway ==
  QuatFromUnitVectors(Vec(0, 0, 1000), VNormalize(MoonPosition))

\* moonToEarth = (0,0,0).sub(moon.position).normalize(); quaternion from +Z
MoonQuaternion ==
  QuatFromUnitVectors(Vec(0, 0, 1000), VNormalize(VSub(Vec(0, 0, 0), MoonPosition)))

\* the inclination handler's angle: elapsedTime * 0.2 * (365.25 / 27.32), in
\* 1/2732 rad
HandlerMoonAngle(t) == t * HandlerEarthOrbitSpeed * 5

\* perihelionPosition = (-a (1 - e), 0, 0) of createEarth, in thousandths
PerihelionPosition == Vec(0 - 20 * (1000 - 250), 0, 0)

\* aphelionPosition = (a (1 + e), 0, 0) of createEarth, in thousandths
AphelionPosition == Vec(20 * (1000 + 250), 0, 0)

\* a unit vector (thousandths) turned by a unit quaternion (thousandths):
\* v + 2 w (q x v) + 2 q x (q x v)
QuatRotate(q, v) ==
  LET tx == TDiv(2 * (q.y * v.z - q.z * v.y), 1000)
      ty == TDiv(2 * (q.z * v.x - q.x * v.z), 1000)
      tz == TDiv(2 * (q.x * v.y - q.y * v.x), 1000)
  IN Vec(v.x + TDiv(q.w * tx + q.y * tz - q.z * ty, 1000),
         v.y + TDiv(q.w * ty + q.z * tx - q.x * tz, 1000),
         v.z + TDiv(q.w * tz + q.x * ty - q.y * tx, 1000))

\* the text of the speed-ratio display frozen at the default speed
SpeedRatioTextAtDefault(speed) == 50 * 10

\* (earthRotationSpeed / 0.2).toFixed(2): the number shown, in hundredths
SpeedRatioText(speed) == 50 * speed

\* a number field that stores whatever is typed
ClampNone(v, lo, hi) == v

\* lil-gui NumberController with min and max: the value is clamped
Clamp(v, lo, hi) == IF v < lo THEN lo ELSE IF v > hi THEN hi ELSE v

\* color: 0xff00ff of the facing mark and of every facing line created
DefaultFaceColor == "#ff00ff"

\* colours picked in the moonFaceColor control
ColorInputs == {"#00ff00"}

\* the visibility checkboxes of the Earth axis and of the orbit landmarks
Flags == {"showEarthAxis", "showPerihelion", "showAphelion",
          "showSummerSolstice", "showWinterSolstice"}

\* the scene objects those checkboxes write
Objects == {"earthAxis", "northPole", "southPole",
            "perihelionMarker", "perihelionLabel",
            "aphelionMarker", "aphelionLabel",
            "summerSolsticeMarker", "summerSolsticeLabel",
            "winterSolsticeMarker", "winterSolsticeLabel"}

\* handlers that set the marker's visibility and leave the label's and the
\* poles' alone
ObjectsOfMarkerOnly(f) ==
  CASE f = "showEarthAxis" -> {"earthAxis"}
    [] f = "showPerihelion" -> {"perihelionMarker"}
    [] f = "showAphelion" -> {"aphelionMarker"}
    [] f = "showSummerSolstice" -> {"summerSolsticeMarker"}
    [] f = "showWinterSolstice" -> {"winterSolsticeMarker"}

\* the objects whose visible field the onChange handler of a checkbox sets
\* (lines 905-913 and 939-973)
ObjectsOf(f) ==
  CASE f = "showEarthAxis" -> {"earthAxis", "northPole", "southPole"}
    [] f = "showPerihelion" -> {"perihelionMarker", "perihelionLabel"}
    [] f = "showAphelion" -> {"aphelionMarker", "aphelionLabel"}
    [] f = "showSummerSolstice" -> {"summerSolsticeMarker", "summerSolsticeLabel"}
    [] f = "showWinterSolstice" -> {"winterSolsticeMarker", "winterSolsticeLabel"}

\* ------------------------------------------------------------------ state
VARIABLES
  now,            \* performance.now(), milliseconds
  awaited,        \* texture loads Promise.all is still waiting for
  allPromise,     \* Promise.all(texturePromises): pending, fulfilled, rejected
  loadPromise,    \* the promise loadTextures() returns (after .then().catch())
  textures,       \* this.textures: "unset", "loaded" (seven maps) or "empty" ({})
  ctorThenRan,    \* the constructor's .then callback has run
  error,          \* uncaught exception of a promise callback, or "none"
  sceneCount,     \* calls of createSolarSystem()
  built,          \* createEarth() and createMoon() have completed at least once
  listenerSets,   \* calls of addEventListeners()
  guiCount,       \* GUI panels created by createGUI()
  hideCount,      \* calls of hideLoading()
  rafPending,     \* requestAnimationFrame callbacks for animate() pending
  clock,          \* this.clock
  elapsedTime,    \* this.elapsedTime
  earthRotationSpeed,   \* this.speedControls.earthRotationSpeed
  pauseAnimation,       \* the pauseAnimation field of each panel's speedControls
  moonOrbitInclination, \* moonOrbitControls.moonOrbitInclination (newest panel)
  showMoonFaceLine,     \* orbitVisualsControls.showMoonFaceLine (newest panel)
  moonFaceColor,        \* orbitVisualsControls.moonFaceColor (newest panel)
  visibilityFlags,      \* the Flags fields of orbitVisualsControls (newest panel)
  atmosphereIntensity,  \* this.atmosphere.material.uniforms.atmosphereIntensity.value
  atmosphereControl,    \* the value the intensity controller displays
  sunRotY,        \* this.sun.rotation.y
  earthRotY,      \* this.earth.rotation.y
  cloudsRotY,     \* this.clouds.rotation.y
  earthGroupPos,  \* this.earthGroup.position
  earthGroupRot,  \* this.earthGroup.rotation
  moonGroupRot,   \* this.moonGroup.rotation
  moonQuat,       \* this.moon.quaternion
  light1Pos,      \* this.sunDirectionalLight.position
  light2Pos,      \* this.secondDirectionalLight.position
  light1Target,   \* this.sunDirectionalLight.target: "own" or "earthGroup"
  moonFaceLineVisible,  \* this.moonFaceLine.visible
  speedRatio,     \* the number in this.timeInfoControls.speedRatio, -1: no panel
  moonFaceLineColor,    \* this.moonFaceLine.material.color
  moonFaceMarkColor,    \* this.moonFaceMark.material.color
  objVisible,     \* the visible field of the objects this.<name> names
  lastOp,         \* history: the last handler that ran
  toggled,        \* history: a pause handler ran since the last frame
  phase,          \* history: none, paused, resumed, firstFrame
  frozenT,        \* history: clock.elapsedTime when the pause was switched on
  resumedAt,      \* history: performance.now() when the pause was switched off
  speedNote       \* history: none, changedPaused, shownPaused

loadVars == <<awaited, allPromise, loadPromise, textures,
              ctorThenRan, error>>
initVars == <<sceneCount, built, listenerSets, guiCount, hideCount,
              moonFaceMarkColor, objVisible>>
paramVars == <<earthRotationSpeed, pauseAnimation, moonOrbitInclination,
               atmosphereControl, showMoonFaceLine, moonFaceColor,
               visibilityFlags>>
frameVars == <<sunRotY, earthRotY, cloudsRotY, earthGroupPos, earthGroupRot,
               moonQuat, light1Pos, light2Pos, light1Target,
               moonFaceLineVisible, speedRatio, moonFaceLineColor>>
histVars == <<toggled, phase, frozenT, resumedAt, speedNote>>
vars == <<now, loadVars, initVars, rafPending, clock, elapsedTime, paramVars,
          atmosphereIntensity, frameVars, moonGroupRot, lastOp, histVars>>

\* the state the constructor leaves (lines 78-112): the loads are in flight,
\* no scene object exists yet
Init ==
  /\ now = 0
  /\ awaited = NumTextures
  /\ allPromise = "pending"
  /\ loadPromise = "pending"
  /\ textures = "unset"
  /\ ctorThenRan = FALSE
  /\ error = "none"
  /\ sceneCount = 0
  /\ built = FALSE
  /\ listenerSets = 0
  /\ guiCount = 0
  /\ hideCount = 0
  /\ rafPending = 0
  /\ clock = NewClock
  /\ elapsedTime = 0
  /\ earthRotationSpeed = SpeedDefault
  /\ pauseAnimation = [g \in 1..2 |-> FALSE]
  /\ moonOrbitInclination = InclDefault
  /\ atmosphereIntensity = AtmoInitial
  /\ atmosphereControl = AtmoInitial
  /\ sunRotY = 0
  /\ earthRotY = 0
  /\ cloudsRotY = 0
  /\ earthGroupPos = Vec(0, 0, 0)
  /\ earthGroupRot = [tilt |-> 0, y |-> 0]
  /\ moonGroupRot = [y |-> 0, x |-> InclDefault]
  /\ moonQuat = [x |-> 0, y |-> 0, z |-> 0, w |-> 1000]
  /\ light1Pos = Vec(0, 0, 0)
  /\ light2Pos = Vec(0, 0, 0)
  /\ light1Target = "own"
  /\ showMoonFaceLine = TRUE
  /\ moonFaceLineVisible = TRUE
  /\ speedRatio = -1
  /\ moonFaceColor = DefaultFaceColor
  /\ visibilityFlags = [f \in Flags |-> TRUE]
  /\ moonFaceLineColor = DefaultFaceColor
  /\ moonFaceMarkColor = DefaultFaceColor
  /\ objVisible = [o \in Objects |-> TRUE]
  /\ lastOp = "construct"
  /\ toggled = FALSE
  /\ phase = "none"
  /\ frozenT = 0
  /\ resumedAt = 0
  /\ speedNote = "none"

\* a promise reaction is queued: it runs before any other event is handled
MicrotaskPending ==
  \/ allPromise /= "pending" /\ loadPromise = "pending"
  \/ loadPromise = "fulfilled" /\ ~ctorThenRan

\* ------------------------------------------------------------ wall clock
\* time passes between events; promise reactions run in the turn that queued
\* them
Tick ==
  /\ now < MaxTicks * 1000
  /\ ~MicrotaskPending
  /\ now' = now + 1000
  /\ UNCHANGED <<loadVars, initVars, rafPending, clock, elapsedTime, paramVars,
                 atmosphereIntensity, frameVars, moonGroupRot, lastOp, histVars>>

\* ------------------------------------------------------ texture loading
\* one loadTexture() callback runs; Promise.all fulfils when all seven have
\* resolved and rejects at the first rejection.  Once it has rejected it
\* waits for nothing: the callbacks of the remaining loads still run, but
\* they change nothing the app reads.
LoadSettle(rejects) ==
  /\ awaited > 0
  /\ ~MicrotaskPending
  /\ awaited' = IF rejects THEN 0 ELSE awaited - 1
  /\ allPromise' = IF rejects THEN "rejected"
                   ELSE IF awaited = 1 THEN "fulfilled"
                   ELSE "pending"
  /\ UNCHANGED <<now, loadPromise, textures, ctorThenRan, error, initVars,
                 rafPending, clock, elapsedTime, paramVars, atmosphereIntensity,
                 frameVars, moonGroupRot, histVars>>

\* the onLoad callback: resolve(texture)
LoadSuccess == LoadSettle(FALSE) /\ lastOp' = "loadSuccess"

\* the onError callback with a 2d context: resolve(replacement texture)
LoadFallback == LoadSettle(FALSE) /\ lastOp' = "loadFallback"

\* the onError callback when canvas.getContext('2d') is null: reject(error)
LoadReject == LoadSettle(TRUE) /\ lastOp' = "loadReject"

\* --------------------------------------------------------------- animate
\* animate() that integrates the spins frame by frame instead of re-deriving
\* them from the elapsed time
AnimateBodyAccumulates(speed, haveScene) ==
  /\ clock' = ClockGetElapsedTime(clock, now)
  /\ elapsedTime' = clock'.elapsedTime
  /\ IF haveScene
     THEN /\ sunRotY' = sunRotY + SunRotation(elapsedTime' - elapsedTime, speed)
          /\ earthRotY' = earthRotY + EarthRotation(elapsedTime' - elapsedTime, speed)
          /\ cloudsRotY' = cloudsRotY + CloudRotation(elapsedTime' - elapsedTime, speed)
          /\ earthGroupPos' = EarthPosition(EarthOrbitAngle(elapsedTime', speed))
          /\ earthGroupRot' = EarthGroupRotation(EarthOrbitAngle(elapsedTime', speed))
          /\ light1Pos' = PrimaryLight(earthGroupPos')
          /\ light2Pos' = SecondaryLight(earthGroupPos')
          /\ light1Target' = "earthGroup"
          /\ moonGroupRot' = MoonGroupRotation(elapsedTime', speed)
          /\ moonQuat' = MoonQuaternion
          /\ moonFaceLineVisible' = TRUE
          /\ moonFaceLineColor' = DefaultFaceColor
          /\ atmosphereIntensity' = AtmoAnimate
          /\ speedRatio' = SpeedRatioText(speed)
     ELSE UNCHANGED <<frameVars, moonGroupRot, atmosphereIntensity>>

\* the body of animate() run at speed `speed` on the objects this.* names;
\* haveScene is the truth of the guards this.sun, this.earth && this.clouds
\* && this.earthGroup, this.moon && this.moonGroup, this.atmosphere and
\* this.speedControls && this.timeInfoControls && this.speedRatioUI.  The
\* facing line is removed and a new THREE.Line, visible by default, takes its
\* place.
AnimateBody(speed, haveScene) ==
  /\ clock' = ClockGetElapsedTime(clock, now)
  /\ elapsedTime' = clock'.elapsedTime
  /\ IF haveScene
     THEN /\ sunRotY' = SunRotation(elapsedTime', speed)
          /\ earthRotY' = EarthRotation(elapsedTime', speed)
          /\ cloudsRotY' = CloudRotation(elapsedTime', speed)
          /\ earthGroupPos' = EarthPosition(EarthOrbitAngle(elapsedTime', speed))
          /\ earthGroupRot' = EarthGroupRotation(EarthOrbitAngle(elapsedTime', speed))
          /\ light1Pos' = PrimaryLight(earthGroupPos')
          /\ light2Pos' = SecondaryLight(earthGroupPos')
          /\ light1Target' = "earthGroup"
          /\ moonGroupRot' = MoonGroupRotation(elapsedTime', speed)
          /\ moonQuat' = MoonQuaternion
          /\ moonFaceLineVisible' = TRUE
          /\ moonFaceLineColor' = DefaultFaceColor
          /\ atmosphereIntensity' = AtmoAnimate
          /\ speedRatio' = SpeedRatioText(speed)
     ELSE UNCHANGED <<frameVars, moonGroupRot, atmosphereIntensity>>

\* history kept across a frame
FrameHistory ==
  /\ toggled' = FALSE
  /\ phase' = IF phase = "resumed" THEN "firstFrame"
              ELSE IF phase = "firstFrame" THEN "none" ELSE phase
  /\ speedNote' = IF speedNote = "changedPaused" THEN "shownPaused" ELSE "none"
  /\ frozenT' = IF phase' = "none" THEN 0 ELSE frozenT
  /\ resumedAt' = IF phase' = "none" THEN 0 ELSE resumedAt

\* a requestAnimationFrame callback runs animate() and requests the next one
Animate ==
  /\ rafPending > 0
  /\ ~MicrotaskPending
  /\ lastOp' = "animate"
  /\ AnimateBody(earthRotationSpeed, built)
  /\ rafPending' = rafPending - 1 + 1
  /\ FrameHistory
  /\ UNCHANGED <<now, loadVars, initVars, paramVars>>

\* -------------------------------------------------------- initialisation
\* createSolarSystem(); addEventListeners(); createGUI(); hideLoading();
\* animate().  createTextSprite in createEarth dereferences
\* canvas.getContext('2d') unchecked: with ctxOk false it throws a TypeError
\* after createStarfield, createSun and the new earthGroup.
InitSequence(ctxOk) ==
  /\ sceneCount' = sceneCount + 1
  /\ IF ctxOk
     THEN /\ built' = TRUE
          /\ listenerSets' = listenerSets + 1
          /\ guiCount' = guiCount + 1
          /\ hideCount' = hideCount + 1
          /\ earthRotationSpeed' = SpeedDefault
          /\ pauseAnimation' = [pauseAnimation EXCEPT ![guiCount + 1] = FALSE]
          /\ moonOrbitInclination' = InclDefault
          /\ atmosphereControl' = AtmoInitial
          /\ showMoonFaceLine' = TRUE
          /\ moonFaceColor' = DefaultFaceColor
          /\ visibilityFlags' = [f \in Flags |-> TRUE]
          /\ moonFaceMarkColor' = DefaultFaceColor
          /\ objVisible' = [o \in Objects |-> TRUE]
          /\ AnimateBody(SpeedDefault, TRUE)
          /\ rafPending' = rafPending + 1
          /\ FrameHistory
          /\ error' = error
     ELSE /\ sunRotY' = 0
          /\ earthGroupPos' = Vec(0, 0, 0)
          /\ earthGroupRot' = [tilt |-> 0, y |-> 0]
          /\ error' = "TypeError"
          /\ objVisible' = [objVisible EXCEPT !["perihelionMarker"] = TRUE]
          /\ UNCHANGED <<built, listenerSets, guiCount, hideCount, paramVars,
                         moonFaceMarkColor, moonFaceLineColor,
                         rafPending, clock, elapsedTime, atmosphereIntensity,
                         earthRotY, cloudsRotY, moonQuat, light1Pos, light2Pos,
                         light1Target, moonFaceLineVisible, speedRatio,
                         moonGroupRot, histVars>>

\* the .then callback of loadTextures (lines 126-136)
TexturesThen ==
  /\ allPromise = "fulfilled"
  /\ loadPromise = "pending"
  /\ textures' = "loaded"
  /\ loadPromise' = "fulfilled"
  /\ lastOp' = "texturesThen"
  /\ UNCHANGED <<now, awaited, allPromise, ctorThenRan, error, initVars,
                 rafPending, clock, elapsedTime, paramVars, atmosphereIntensity,
                 frameVars, moonGroupRot, histVars>>

\* the .catch callback of loadTextures (lines 137-146)
TexturesCatch ==
  /\ allPromise = "rejected"
  /\ loadPromise = "pending"
  /\ textures' = "empty"
  /\ \E ctxOk \in BOOLEAN :
       /\ InitSequence(ctxOk)
       /\ loadPromise' = IF ctxOk THEN "fulfilled" ELSE "rejected"
       /\ lastOp' = "texturesCatch"
  /\ UNCHANGED <<now, awaited, allPromise, ctorThenRan>>

\* the constructor's .then callback (lines 105-111)
ConstructorThen ==
  /\ loadPromise = "fulfilled"
  /\ ~ctorThenRan
  /\ ctorThenRan' = TRUE
  /\ \E ctxOk \in BOOLEAN :
       /\ InitSequence(ctxOk)
       /\ lastOp' = "constructorThen"
  /\ UNCHANGED <<now, awaited, allPromise, loadPromise, textures>>

\* ----------------------------------------------------------- GUI handlers
\* a panel exists and no promise reaction is queued
GuiReady == guiCount > 0 /\ ~MicrotaskPending

\* the earthRotationSpeed slider of the newest panel (lines 815-816): it is
\* bound to the object this.speedControls names and has no onChange handler
SetSpeed(v) ==
  /\ GuiReady
  /\ earthRotationSpeed' = Clamp(v, SpeedMin, SpeedMax)
  /\ speedNote' = IF ~clock.running /\ earthRotationSpeed' /= earthRotationSpeed
                  THEN "changedPaused" ELSE "none"
  /\ lastOp' = "setSpeed"
  /\ UNCHANGED <<now, loadVars, initVars, rafPending, clock, elapsedTime,
                 pauseAnimation, moonOrbitInclination, atmosphereControl,
                 showMoonFaceLine, moonFaceColor,
                 visibilityFlags, atmosphereIntensity, frameVars, moonGroupRot,
                 toggled, phase, frozenT, resumedAt>>

\* the pauseAnimation checkbox of panel g (lines 819-827)
PauseToggle(g) ==
  /\ GuiReady
  /\ g <= guiCount
  /\ LET value == ~pauseAnimation[g]
     IN /\ pauseAnimation' = [pauseAnimation EXCEPT ![g] = value]
        /\ clock' = IF value THEN ClockStop(clock, now) ELSE ClockStart(clock, now)
        /\ phase' = IF value
                    THEN (IF clock.running THEN "paused" ELSE phase)
                    ELSE (IF clock.running THEN "none" ELSE "resumed")
        /\ frozenT' = IF value /\ clock.running THEN clock'.elapsedTime
                      ELSE IF phase' = "none" THEN 0 ELSE frozenT
        /\ resumedAt' = IF phase' = "resumed" THEN now ELSE 0
        /\ lastOp' = IF value THEN "pause" ELSE "resume"
  /\ toggled' = TRUE
  /\ speedNote' = "none"
  /\ UNCHANGED <<now, loadVars, initVars, rafPending, elapsedTime,
                 earthRotationSpeed, moonOrbitInclination, atmosphereControl,
                 showMoonFaceLine, moonFaceColor,
                 visibilityFlags, atmosphereIntensity, frameVars, moonGroupRot>>

\* a reset that also puts the inclination control back to its default
ResetSpeedsAndInclination(g) ==
  /\ GuiReady
  /\ g <= guiCount
  /\ earthRotationSpeed' = SpeedDefault
  /\ moonOrbitInclination' = InclDefault
  /\ speedNote' = IF ~clock.running /\ earthRotationSpeed' /= earthRotationSpeed
                  THEN "changedPaused" ELSE "none"
  /\ lastOp' = "resetSpeeds"
  /\ UNCHANGED <<now, loadVars, initVars, rafPending, clock, elapsedTime,
                 pauseAnimation, atmosphereControl, showMoonFaceLine,
                 moonFaceColor, visibilityFlags,
                 atmosphereIntensity, frameVars, moonGroupRot,
                 toggled, phase, frozenT, resumedAt>>

\* the reset button of panel g (lines 808-811, 830-831): the closure writes
\* this.speedControls, the newest panel's object
ResetSpeeds(g) ==
  /\ GuiReady
  /\ g <= guiCount
  /\ earthRotationSpeed' = SpeedDefault
  /\ speedNote' = IF ~clock.running /\ earthRotationSpeed' /= earthRotationSpeed
                  THEN "changedPaused" ELSE "none"
  /\ lastOp' = "resetSpeeds"
  /\ UNCHANGED <<now, loadVars, initVars, rafPending, clock, elapsedTime,
                 pauseAnimation, moonOrbitInclination, atmosphereControl,
                 showMoonFaceLine, moonFaceColor,
                 visibilityFlags, atmosphereIntensity, frameVars, moonGroupRot,
                 toggled, phase, frozenT, resumedAt>>

\* the intensity slider (line 835), bound to the uniform's value itself
SetAtmosphere(v) ==
  /\ GuiReady
  /\ atmosphereIntensity' = Clamp(v, AtmoMin, AtmoMax)
  /\ atmosphereControl' = Clamp(v, AtmoMin, AtmoMax)
  /\ lastOp' = "setAtmosphere"
  /\ UNCHANGED <<now, loadVars, initVars, rafPending, clock, elapsedTime,
                 earthRotationSpeed, pauseAnimation, moonOrbitInclination,
                 showMoonFaceLine, moonFaceColor,
                 visibilityFlags, frameVars, moonGroupRot, histVars>>

\* the moonOrbitInclination slider of panel g and its onChange (lines
\* 845-858); the handler rotates the group this.moonGroup names
SetInclination(g, v) ==
  /\ GuiReady
  /\ g <= guiCount
  /\ LET value == Clamp(v, InclMin, InclMax)
     IN /\ moonOrbitInclination' = IF g = guiCount THEN value
                                   ELSE moonOrbitInclination
        /\ moonGroupRot' = IF built
                           THEN [y |-> HandlerMoonAngle(elapsedTime), x |-> value]
                           ELSE moonGroupRot
  /\ lastOp' = "setInclination"
  /\ UNCHANGED <<now, loadVars, initVars, rafPending, clock, elapsedTime,
                 earthRotationSpeed, pauseAnimation, atmosphereControl,
                 showMoonFaceLine, moonFaceColor,
                 visibilityFlags, atmosphereIntensity, frameVars, histVars>>

\* the showMoonFaceLine checkbox of the panel (lines 931-937)
ToggleMoonFaceLine ==
  /\ GuiReady
  /\ showMoonFaceLine' = ~showMoonFaceLine
  /\ moonFaceLineVisible' = IF built THEN showMoonFaceLine' ELSE moonFaceLineVisible
  /\ lastOp' = "toggleMoonFaceLine"
  /\ UNCHANGED <<now, loadVars, initVars, rafPending, clock, elapsedTime,
                 earthRotationSpeed, pauseAnimation, moonOrbitInclination,
                 atmosphereControl, moonFaceColor, visibilityFlags,
                 atmosphereIntensity, sunRotY, earthRotY,
                 cloudsRotY, earthGroupPos, earthGroupRot, moonQuat, light1Pos,
                 light2Pos, light1Target, speedRatio, moonFaceLineColor,
                 moonGroupRot, histVars>>

\* the moonFaceColor control of panel g and its onChange (lines 1015-1024):
\* the colour is set on the mark and on the line this.moonFaceLine names
SetMoonFaceColor(g, c) ==
  /\ GuiReady
  /\ g <= guiCount
  /\ moonFaceColor' = IF g = guiCount THEN c ELSE moonFaceColor
  /\ moonFaceMarkColor' = IF built THEN c ELSE moonFaceMarkColor
  /\ moonFaceLineColor' = IF built THEN c ELSE moonFaceLineColor
  /\ lastOp' = "setMoonFaceColor"
  /\ UNCHANGED <<now, loadVars, sceneCount, built, listenerSets, guiCount,
                 hideCount, objVisible, rafPending, clock, elapsedTime,
                 earthRotationSpeed, pauseAnimation, moonOrbitInclination,
                 atmosphereControl, showMoonFaceLine, visibilityFlags,
                 atmosphereIntensity, sunRotY, earthRotY, cloudsRotY,
                 earthGroupPos, earthGroupRot, moonQuat, light1Pos, light2Pos,
                 light1Target, moonFaceLineVisible, speedRatio, moonGroupRot,
                 histVars>>

\* the checkbox f of panel g and its onChange (lines 905-913, 939-973).  The
\* newest panel's checkbox state is kept; a click on the older panel's
\* checkbox passes the value that checkbox then has, either one
ToggleVisibility(g, f) ==
  /\ GuiReady
  /\ g <= guiCount
  /\ \E value \in BOOLEAN :
       /\ g = guiCount => value = ~visibilityFlags[f]
       /\ visibilityFlags' = IF g = guiCount
                             THEN [visibilityFlags EXCEPT ![f] = value]
                             ELSE visibilityFlags
       /\ objVisible' = IF built
                        THEN [o \in Objects |->
                               IF o \in ObjectsOf(f) THEN value ELSE objVisible[o]]
                        ELSE objVisible
  /\ lastOp' = "toggleVisibility"
  /\ UNCHANGED <<now, loadVars, sceneCount, built, listenerSets, guiCount,
                 hideCount, moonFaceMarkColor, rafPending, clock, elapsedTime,
                 earthRotationSpeed, pauseAnimation, moonOrbitInclination,
                 atmosphereControl, showMoonFaceLine, moonFaceColor,
                 atmosphereIntensity, frameVars, moonGroupRot, histVars>>

\* the space bar is pressed: addEventListeners (lines 729-771) registers
\* resize, mousemove and click listeners and no key listener, so the event
\* reaches no code of the application
KeySpace ==
  /\ listenerSets > 0
  /\ ~MicrotaskPending
  /\ lastOp' = "keySpace"
  /\ UNCHANGED <<now, loadVars, initVars, rafPending, clock, elapsedTime,
                 paramVars, atmosphereIntensity, frameVars, moonGroupRot,
                 histVars>>

\* ------------------------------------------------------------------ system
Next ==
  \/ Tick
  \/ LoadSuccess
  \/ LoadFallback
  \/ LoadReject
  \/ TexturesThen
  \/ TexturesCatch
  \/ ConstructorThen
  \/ Animate
  \/ \E v \in SpeedInputs : SetSpeed(v)
  \/ \E g \in 1..2 : PauseToggle(g)
  \/ \E g \in 1..2 : ResetSpeeds(g)
  \/ \E v \in AtmoInputs : SetAtmosphere(v)
  \/ \E g \in 1..2, v \in InclInputs : SetInclination(g, v)

Spec == Init /\ [][Next]_vars

\* the promise callbacks and frames are scheduled by the host: every queued
\* reaction runs, every texture load completes, every requested frame runs
LiveSpec ==
  /\ Spec
  /\ WF_vars(LoadSuccess \/ LoadFallback \/ LoadReject)
  /\ WF_vars(TexturesThen)
  /\ WF_vars(TexturesCatch)
  /\ WF_vars(ConstructorThen)
  /\ WF_vars(Animate)

\* the application after its initialisation at time 0, t seconds later with
\* no frame run in between (frame callbacks are suspended while the page is
\* hidden, performance.now() goes on).  n = 1: seven loads succeeded, the
\* then-callbacks ran, animate() was called once.  n = 2: a load was rejected,
\* the catch handler and the constructor's then-callback both initialised.
RunningAt(t, n) ==
  /\ now = t * 1000
  /\ awaited = 0
  /\ allPromise = IF n = 1 THEN "fulfilled" ELSE "rejected"
  /\ loadPromise = "fulfilled"
  /\ textures = IF n = 1 THEN "loaded" ELSE "empty"
  /\ ctorThenRan = TRUE
  /\ error = "none"
  /\ sceneCount = n
  /\ built = TRUE
  /\ listenerSets = n
  /\ guiCount = n
  /\ hideCount = n
  /\ rafPending = n
  /\ clock = ClockStart(NewClock, 0)
  /\ elapsedTime = 0
  /\ earthRotationSpeed = SpeedDefault
  /\ pauseAnimation = [g \in 1..2 |-> FALSE]
  /\ moonOrbitInclination = InclDefault
  /\ atmosphereIntensity = AtmoAnimate
  /\ atmosphereControl = AtmoInitial
  /\ sunRotY = SunRotation(0, SpeedDefault)
  /\ earthRotY = EarthRotation(0, SpeedDefault)
  /\ cloudsRotY = CloudRotation(0, SpeedDefault)
  /\ earthGroupPos = EarthPosition(EarthOrbitAngle(0, SpeedDefault))
  /\ earthGroupRot = EarthGroupRotation(EarthOrbitAngle(0, SpeedDefault))
  /\ moonGroupRot = MoonGroupRotation(0, SpeedDefault)
  /\ moonQuat = MoonQuaternion
  /\ light1Pos = PrimaryLight(earthGroupPos)
  /\ light2Pos = SecondaryLight(earthGroupPos)
  /\ light1Target = "earthGroup"
  /\ showMoonFaceLine = TRUE
  /\ moonFaceLineVisible = TRUE
  /\ speedRatio = SpeedRatioText(SpeedDefault)
  /\ moonFaceColor = DefaultFaceColor
  /\ visibilityFlags = [f \in Flags |-> TRUE]
  /\ moonFaceLineColor = DefaultFaceColor
  /\ moonFaceMarkColor = DefaultFaceColor
  /\ objVisible = [o \in Objects |-> TRUE]
  /\ lastOp = "constructorThen"
  /\ toggled = FALSE
  /\ phase = "none"
  /\ frozenT = 0
  /\ resumedAt = 0
  /\ speedNote = "none"

\* the application after a successful load, sampled over two orbits
FrameInit == \E t \in TimeInputs : RunningAt(t, 1)

\* the application right after its initialisation, with one panel or two
PanelInit == \E n \in 1..2 : RunningAt(0, n)

\* frames, the speed slider, the facing-line checkbox and the keyboard
FrameNext ==
  \/ Animate
  \/ \E v \in FrameSpeedInputs : SetSpeed(v)
  \/ ToggleMoonFaceLine
  \/ KeySpace

FrameSpec == FrameInit /\ [][FrameNext]_vars

\* frames and the handlers of the colour and visibility controls
PanelNext ==
  \/ Animate
  \/ ToggleMoonFaceLine
  \/ \E g \in 1..2, c \in ColorInputs : SetMoonFaceColor(g, c)
  \/ \E g \in 1..2, f \in Flags : ToggleVisibility(g, f)

PanelSpec == PanelInit /\ [][PanelNext]_vars

\* ----------------------------------------------------------------- claims
\* animate() has just run (from a frame callback or at the end of a
\* successful initialisation) and nothing but time has happened since
FrameJustRan ==
  \/ lastOp = "animate"
  \/ lastOp \in {"texturesCatch", "constructorThen"} /\ error = "none"

\* a step in which animate() runs after an earlier frame: a frame callback, or
\* the animate() call that ends a second initialisation
FrameStep ==
  \/ Animate
  \/ ConstructorThen /\ rafPending > 0 /\ rafPending' > rafPending

\* the speeds entered that lie outside the slider's range, and the inclinations
SpeedOutOfRange == {v \in SpeedInputs : v < SpeedMin \/ v > SpeedMax}
InclOutOfRange == {v \in InclInputs : v < InclMin \/ v > InclMax}

\* C1: the first frame after a resume reads the elapsed time frozen at the
\* pause plus the time run since the resume, and nothing else.
C1_ResumeContinuesFromFrozen ==
  phase = "firstFrame" => elapsedTime = frozenT + ((now - resumedAt) \div 1000)

\* C2: a frame run while paused leaves the elapsed time at its frozen value
\* and derives Sun spin, Earth spin, Earth orbit angle and position and Moon
\* orbit angle from that value and the speed set at that moment.
C2_PausedFrameUsesFrozenTime ==
  (FrameJustRan /\ phase = "paused") =>
    /\ elapsedTime = frozenT
    /\ clock.elapsedTime = frozenT
    /\ sunRotY = frozenT * earthRotationSpeed
    /\ earthRotY = frozenT * earthRotationSpeed
    /\ earthGroupRot.y = frozenT * earthRotationSpeed * 2
    /\ earthGroupPos = EarthPosition(frozenT * earthRotationSpeed * 2)
    /\ moonGroupRot.y = frozenT * earthRotationSpeed * 10

C2_Witness ==
  /\ FrameJustRan
  /\ phase = "paused"
  /\ speedNote = "shownPaused"
  /\ frozenT > 0
  /\ earthRotationSpeed = 25
  /\ earthRotY = 25

\* C3: between two consecutive frames with no pause toggle in between, the
\* elapsed time does not decrease while the clock runs and does not change
\* while it is stopped.
C3_ElapsedMonotoneOrFrozen ==
  [][(FrameStep /\ ~toggled) =>
       /\ clock.running => elapsedTime' >= elapsedTime
       /\ ~clock.running => elapsedTime' = elapsedTime]_vars

C3_Witness ==
  /\ lastOp = "animate"
  /\ ~toggled
  /\ clock.running
  /\ elapsedTime > 0

\* C4: a pause invoked while already paused leaves the clock stopped at the
\* elapsed time of the first pause, whatever wall-clock time passed since.
C4_PauseIdempotent ==
  (lastOp = "pause" /\ phase = "paused") =>
    ~clock.running /\ clock.elapsedTime = frozenT

C4_Witness ==
  /\ lastOp = "pause"
  /\ phase = "paused"
  /\ pauseAnimation[1] /\ pauseAnimation[2]
  /\ now > clock.oldTime

\* C5: what a frame writes is a function of the elapsed time and the
\* parameters at that frame alone.
C5_FrameIsFunctionOfTimeAndParams ==
  FrameJustRan =>
    /\ sunRotY = SunRotation(elapsedTime, earthRotationSpeed)
    /\ earthRotY = EarthRotation(elapsedTime, earthRotationSpeed)
    /\ cloudsRotY = CloudRotation(elapsedTime, earthRotationSpeed)
    /\ earthGroupPos = EarthPosition(EarthOrbitAngle(elapsedTime, earthRotationSpeed))
    /\ earthGroupRot = EarthGroupRotation(EarthOrbitAngle(elapsedTime, earthRotationSpeed))
    /\ moonGroupRot = MoonGroupRotation(elapsedTime, earthRotationSpeed)
    /\ moonQuat = MoonQuaternion
    /\ light1Pos = PrimaryLight(EarthPosition(EarthOrbitAngle(elapsedTime, earthRotationSpeed)))
    /\ light2Pos = SecondaryLight(EarthPosition(EarthOrbitAngle(elapsedTime, earthRotationSpeed)))

C5_Witness ==
  /\ lastOp = "animate"
  /\ phase = "firstFrame"
  /\ elapsedTime > 0
  /\ earthRotationSpeed = 25
  /\ moonOrbitInclination = 80

\* C6: every rendered frame applies the inclination the control holds.
C6_FrameAppliesInclination ==
  FrameJustRan => moonGroupRot.x = moonOrbitInclination

\* C7: every rendered frame uses the intensity the control was set to.
C7_FrameUsesIntensity ==
  FrameJustRan => atmosphereIntensity = atmosphereControl

\* C8 as written: after a reset the speed is 1.0 and the inclination is 5.1.
C8_ResetRestoresBoth ==
  lastOp = "resetSpeeds" =>
    earthRotationSpeed = SpeedDefault /\ moonOrbitInclination = InclDefault

\* C8 as amended: a reset sets the speed to 1.0 and leaves the inclination
\* control and the Moon group's rotation as they were.
C8_ResetRestoresSpeedOnly ==
  [][\A g \in 1..2 : ResetSpeeds(g) =>
       /\ earthRotationSpeed' = SpeedDefault
       /\ moonOrbitInclination' = moonOrbitInclination
       /\ moonGroupRot' = moonGroupRot]_vars

C8_Witness ==
  /\ lastOp = "resetSpeeds"
  /\ speedNote = "changedPaused"
  /\ earthRotationSpeed = SpeedDefault
  /\ moonOrbitInclination = 80

\* C9 as written: an out-of-range value fails with InvalidParameter and the
\* parameter keeps its value.
C9_OutOfRangeRejected ==
  [][/\ \A v \in SpeedOutOfRange : SetSpeed(v) =>
          earthRotationSpeed' = earthRotationSpeed /\ error' = "InvalidParameter"
     /\ \A v \in InclOutOfRange : SetInclination(guiCount, v) =>
          moonOrbitInclination' = moonOrbitInclination /\ error' = "InvalidParameter"]_vars

\* C9 as amended: an out-of-range value entered in a control raises no error
\* and is stored as the nearest end of the control's range.
C9_OutOfRangeClamped ==
  [][/\ \A v \in SpeedOutOfRange : SetSpeed(v) =>
          /\ earthRotationSpeed' = (IF v < SpeedMin THEN SpeedMin ELSE SpeedMax)
          /\ error' = error
     /\ \A v \in InclOutOfRange : SetInclination(guiCount, v) =>
          /\ moonOrbitInclination' = (IF v < InclMin THEN InclMin ELSE InclMax)
          /\ moonGroupRot'.x = moonOrbitInclination'
          /\ error' = error]_vars

C9_Witness ==
  /\ lastOp = "setSpeed"
  /\ speedNote = "changedPaused"
  /\ earthRotationSpeed = SpeedMin
  /\ moonOrbitInclination = InclMax
  /\ error = "none"

\* C10: whatever the outcomes of the texture loads, the scene is eventually
\* created and animate() eventually runs frames.
C10_AnimateEventuallyRuns == <>(built /\ rafPending > 0)

\* C11: in every reachable state, whatever the outcome of the texture loads,
\* at most one frame callback for animate() is pending.
C11_AtMostOneFramePending == rafPending <= 1

\* C12: once the facing-line checkbox is switched off, the line attached to
\* the Moon is invisible after every frame until it is switched on again.
C12_HiddenLineStaysHidden ==
  (FrameJustRan /\ ~showMoonFaceLine) => ~moonFaceLineVisible

\* C13: a press of the space bar switches the clock between running and
\* stopped, as the pause checkbox does.
C13_SpaceTogglesClock ==
  [][KeySpace => clock'.running /= clock.running]_vars

\* C14: every Earth orbital rate the code computes, times 365.25, is the
\* current rotation speed: the Earth and Moon angles a frame writes and the
\* Moon angle the inclination handler writes are the elapsed time times the
\* rate earthRotationSpeed / 365.25 (and 365.25 / 27.32 times it).
C14_OrbitRateFromSpeed ==
  /\ FrameJustRan =>
       /\ earthGroupRot.y = elapsedTime * (earthRotationSpeed * 2)
       /\ moonGroupRot.y = elapsedTime * (earthRotationSpeed * 2) * 5
  /\ (lastOp = "setInclination" /\ built) =>
       moonGroupRot.y = elapsedTime * (earthRotationSpeed * 2) * 5

\* C15: with the speed at 0 a frame at any elapsed time writes the angles of
\* time 0 (Sun, Earth and cloud spin 0, Earth orbit angle 0 with the Earth at
\* the perihelion point, Moon orbit angle 0), and no divisor of the frame is 0.
C15_ZeroSpeedFreezesAngles ==
  (FrameJustRan /\ earthRotationSpeed = 0) =>
    /\ sunRotY = 0
    /\ earthRotY = 0
    /\ cloudsRotY = 0
    /\ earthGroupRot.y = 0
    /\ earthGroupPos = Vec(-15000, 0, 0)
    /\ moonGroupRot.y = 0
    /\ OrbitDenominator(earthGroupRot.y) > 0
    /\ VLen(earthGroupPos) > 0

C15_Witness ==
  /\ lastOp = "animate"
  /\ earthRotationSpeed = 0
  /\ elapsedTime = 11477
  /\ earthGroupPos = Vec(-15000, 0, 0)

\* C16: the position a frame writes at orbit angle 0 (elapsed time 0, default
\* speed) is (-15, 0, 0) and at angle pi (3.142 rad) is (25, 0, 0), and these
\* are the positions createEarth gives the perihelion and aphelion markers.
C16_FrameOrbitMeetsMarkers ==
  FrameJustRan =>
    /\ (elapsedTime = 0 /\ earthRotationSpeed = SpeedDefault) => earthGroupRot.y = 0
    /\ earthGroupRot.y = 0 =>
         earthGroupPos = Vec(-15000, 0, 0) /\ earthGroupPos = PerihelionPosition
    /\ OrbitMrad(earthGroupRot.y) = 3142 =>
         earthGroupPos = Vec(25000, 0, 0) /\ earthGroupPos = AphelionPosition

C16_Witness ==
  /\ lastOp = "animate"
  /\ elapsedTime = 11477
  /\ OrbitMrad(earthGroupRot.y) = 3142
  /\ earthGroupPos = AphelionPosition

\* C17: after every frame, at every Moon orbit angle, the Moon's +Z axis
\* turned by its quaternion points from the Moon to the origin of the Moon
\* group (to within 2/1000), and the quaternion has no component beside the
\* one turn about the Moon's Y axis that aligns +Z with that direction.
C17_TidalLock ==
  FrameJustRan =>
    LET z == QuatRotate(moonQuat, Vec(0, 0, 1000))
        d == VNormalize(VSub(Vec(0, 0, 0), MoonPosition))
    IN /\ z.x - d.x \in -2..2
       /\ z.y - d.y \in -2..2
       /\ z.z - d.z \in -2..2
       /\ moonQuat.x = 0
       /\ moonQuat.z = 0

C17_Witness ==
  /\ lastOp = "animate"
  /\ moonGroupRot.y > 0
  /\ elapsedTime > 0
  /\ QuatRotate(moonQuat, Vec(0, 0, 1000)).x < -990

\* C18: after every frame, at every orbit angle, the primary light is at the
\* Earth's position minus 10 times the unit vector from the Sun to the Earth
\* and aims at the Earth group: it is 10 units from the Earth, on the line
\* from the Sun to the Earth, between the two.
C18_PrimaryLightOnSunSide ==
  FrameJustRan =>
    /\ light1Pos = VSub(earthGroupPos, VScale(VNormalize(earthGroupPos), 10))
    /\ light1Target = "earthGroup"
    /\ VLen(VSub(earthGroupPos, light1Pos)) \in 9980..10020
    /\ light1Pos.x * earthGroupPos.z - light1Pos.z * earthGroupPos.x
         \in -500000..500000
    /\ light1Pos.x * earthGroupPos.x + light1Pos.z * earthGroupPos.z > 0
    /\ VLen(light1Pos) < VLen(earthGroupPos)

C18_Witness ==
  /\ lastOp = "animate"
  /\ elapsedTime > 0
  /\ earthGroupPos.x > 0
  /\ earthGroupPos.z > 0
  /\ light1Pos.x > 0
  /\ light1Target = "earthGroup"

\* C19: after every frame the speed-ratio display shows the current speed
\* divided by 0.2, to two decimals; also after a frame run while paused and
\* after the first frame that follows a reset or a move of the slider.
C19_RatioShowsCurrentSpeed ==
  FrameJustRan => speedRatio = earthRotationSpeed * 50

C19_Witness ==
  /\ lastOp = "animate"
  /\ phase = "paused"
  /\ speedNote = "shownPaused"
  /\ earthRotationSpeed = 25
  /\ speedRatio = 1250

\* C20: the initialisation sequence runs once for every outcome of the
\* texture loads: no scene, listener set or GUI panel is created twice.
C20_InitialisedOnce ==
  /\ sceneCount <= 1
  /\ listenerSets <= 1
  /\ guiCount <= 1
  /\ hideCount <= 1

\* C21: the Sun-to-Earth vector has length 1 where the secondary light is
\* computed, so after a frame that light is at the Earth's position minus
\* (8 u + 2 o), u the unit Sun-to-Earth vector, o = (sin 15, cos 15, 0).
C21_SecondaryLightEightUnits ==
  lastOp = "animate" =>
    light2Pos = VSub(earthGroupPos,
                     VAdd(VScale(VNormalize(earthGroupPos), 8), VScale(OffsetVector, 2)))

\* C22: in every frame, at every orbit angle, the denominator 1 + e cos(angle)
\* is at least 0.75 and the Earth-Sun distance is between 15 and 25, 15 at
\* angle 0 and 25 at angle pi (3.142 rad).  The length of the position written
\* is the distance to within 0.05: sine and cosine are kept to three decimals.
C22_RadiusBounded ==
  FrameJustRan =>
    /\ OrbitDenominator(earthGroupRot.y) >= 750
    /\ OrbitRadius(earthGroupRot.y) \in 15000..25000
    /\ VLen(earthGroupPos) \in 14950..25050
    /\ earthGroupRot.y = 0 =>
         OrbitRadius(earthGroupRot.y) = 15000 /\ VLen(earthGroupPos) = 15000
    /\ OrbitMrad(earthGroupRot.y) = 3142 =>
         OrbitRadius(earthGroupRot.y) = 25000 /\ VLen(earthGroupPos) = 25000

C22_Witness ==
  /\ lastOp = "animate"
  /\ elapsedTime > 0
  /\ VLen(earthGroupPos) > 20000
  /\ VLen(earthGroupPos) < 25000
  /\ earthGroupPos.z < 0

\* C23: once a colour is picked in the moonFaceColor control, the facing mark
\* and the facing line attached to the Moon both have it after every frame.
C23_FaceColourKept ==
  lastOp = "animate" =>
    /\ moonFaceLineColor = moonFaceMarkColor
    /\ moonFaceColor /= DefaultFaceColor => moonFaceMarkColor = moonFaceColor

\* C24: at every step each landmark marker is as visible as its label and the
\* Earth axis as its two pole markers; a visibility checkbox changes the
\* visibility of the objects of one such group and of no other object, and a
\* frame changes none.
C24_PairedVisibility ==
  [][LET groups == {{"earthAxis", "northPole", "southPole"},
                    {"perihelionMarker", "perihelionLabel"},
                    {"aphelionMarker", "aphelionLabel"},
                    {"summerSolsticeMarker", "summerSolsticeLabel"},
                    {"winterSolsticeMarker", "winterSolsticeLabel"}}
         Paired(vis) == \A G \in groups : \A a, b \in G : vis[a] = vis[b]
     IN /\ Paired(objVisible)
        /\ Paired(objVisible')
        /\ (\E g \in 1..2, f \in Flags : ToggleVisibility(g, f)) =>
             /\ \E G \in groups :
                  \A o \in Objects \ G : objVisible'[o] = objVisible[o]
             /\ moonFaceLineVisible' = moonFaceLineVisible
        /\ Animate => objVisible' = objVisible]_vars

C24_Witness ==
  /\ lastOp = "toggleVisibility"
  /\ ~objVisible["perihelionMarker"]
  /\ ~objVisible["perihelionLabel"]
  /\ objVisible["aphelionMarker"]
  /\ objVisible["aphelionLabel"]
  /\ ~objVisible["earthAxis"]
  /\ ~objVisible["northPole"]
  /\ ~objVisible["southPole"]
  /\ guiCount = 2

====
